---- MODULE Spec2Model ----
(***************************************************************************)
(* Scribbl Scan: App (view controller), TasksList (task fetcher and        *)
(* sender filter) and EventsList (notice fetcher), with the block-range    *)
(* pagination loop both fetchers share.                                    *)
(*                                                                         *)
(* Block heights are scaled down: the deployment constants (3358671,       *)
(* 3358559, 50000) become TASK_START, EVENT_START and BLOCK_RANGE below.   *)
(* All modelled heights are far below 2^53, where Number() and BigInt()    *)
(* are exact.                                                              *)
(***************************************************************************)
EXTENDS Integers, Sequences, FiniteSets, Bags, TLC

\* ------------------------------------------------------------------ bounds
MaxTip == 3        \* chain tips returned by getBlockNumber are 0..MaxTip
MaxFlight == 2     \* fetchTasks / fetchEvents calls in flight at a time
MaxStart == 3      \* paginator study: start blocks 0..MaxStart
MaxPageTip == 5    \* paginator study: tips 0..MaxPageTip
MaxSpan == 3       \* paginator study: spans 0..MaxSpan

\* ------------------------------------------------- deployment constants
TASK_START == 1
EVENT_START == 0
BLOCK_RANGE == 1

NULL == "null"

\* useState<InputDetails | null>(null): inputDetails?.hash is undefined.
NoDetails == [hash |-> NULL, blockNumber |-> <<>>]

\* ------------------------------------------------------- pure functions
Min(a, b) == IF a <= b THEN a ELSE b

\* Number(bigint): exact for every height the model uses (below 2^53).
ToNumber(b) == b

\* BigInt(number): exact on integral numbers.
ToBigInt(n) == n

\* Variant: the sub-range end is not clamped to the tip.
CurrentToBlockUnclamped(currentFromBlock, latestBlock, blockRange) ==
    ToBigInt(ToNumber(currentFromBlock + blockRange))

\* currentToBlock = BigInt(Math.min(Number(from + BLOCK_RANGE), Number(latest)))
CurrentToBlock(currentFromBlock, latestBlock, blockRange) ==
    ToBigInt(Min(ToNumber(currentFromBlock + blockRange), ToNumber(latestBlock)))

\* Variant: the loop condition is strict.
LoopConditionStrict(currentFromBlock, latestBlock) == currentFromBlock < latestBlock

\* while (currentFromBlock <= latestBlock)
LoopCondition(currentFromBlock, latestBlock) == currentFromBlock <= latestBlock

\* if (currentToBlock === latestBlock) break;
LoopBreak(currentToBlock, latestBlock) == currentToBlock = latestBlock

\* Variant: the next sub-range starts at the end of the previous one.
NextFromBlockStuck(currentToBlock) == currentToBlock

\* currentFromBlock = currentToBlock + 1n
NextFromBlock(currentToBlock) == currentToBlock + 1

\* Variant: the body runs once before the condition is tested (do-while).
EnterLoopDoWhile(q, from, blockRange) ==
    [q EXCEPT !.pc = "range", !.from = from,
              !.to = CurrentToBlock(from, q.latestBlock, blockRange)]

\* The loop head: test the while condition for `from` and, if it holds,
\* compute the sub-range whose fetch is awaited next.
EnterLoop(q, from, blockRange) ==
    IF LoopCondition(from, q.latestBlock)
    THEN [q EXCEPT !.pc = "range", !.from = from,
                   !.to = CurrentToBlock(from, q.latestBlock, blockRange)]
    ELSE [q EXCEPT !.pc = "done", !.from = from]

\* The loop tail after a batch was appended: break or advance.
AfterBatch(q, blockRange) ==
    IF LoopBreak(q.to, q.latestBlock)
    THEN [q EXCEPT !.pc = "done"]
    ELSE EnterLoop(q, NextFromBlock(q.to), blockRange)

\* String.prototype.toLowerCase on one character of the address alphabet.
LowerChar(c) ==
    CASE c = "A" -> "a" [] c = "B" -> "b" [] c = "C" -> "c" [] c = "D" -> "d"
      [] OTHER -> c

\* userAddress.toLowerCase() / from.toLowerCase(); strings are sequences of
\* one-character strings.
ToLowerCase(str) == [i \in 1..Len(str) |-> LowerChar(str[i])]

Digit(d) ==
    CASE d = 0 -> "0" [] d = 1 -> "1" [] d = 2 -> "2" [] d = 3 -> "3"
      [] d = 4 -> "4" [] d = 5 -> "5" [] d = 6 -> "6" [] d = 7 -> "7"
      [] d = 8 -> "8" [] OTHER -> "9"

RECURSIVE ToString10(_)
\* blockNumber.toString(10)
ToString10(n) ==
    IF n < 10 THEN <<Digit(n)>> ELSE ToString10(n \div 10) \o <<Digit(n % 10)>>

\* keccak256(input): collision free on the inputs of the modelled chain.
Keccak256(input) ==
    CASE input = "in1" -> "h1" [] input = "in2" -> "h2" [] OTHER -> "h3"

\* ------------------------------------------------------ the remote chain
\* TaskIssued logs for the fixed callback, in chain order.
ChainTasks ==
    << [transactionHash |-> "tx1", blockNumber |-> 1, input |-> "in1"],
       [transactionHash |-> "tx2", blockNumber |-> 2, input |-> "in2"],
       [transactionHash |-> "tx3", blockNumber |-> 3, input |-> "in3"] >>

\* tx.from of client.getTransaction({hash}) (checksummed, mixed case).
TxFrom(hash) ==
    CASE hash = "tx1" -> <<"A", "b">> [] hash = "tx2" -> <<"c", "D">>
      [] OTHER -> <<"a", "B">>

\* NoticeReceived logs, in chain order.
ChainNotices ==
    << [transactionHash |-> "cb1", blockNumber |-> 1, payloadHash |-> "h1"],
       [transactionHash |-> "cb2", blockNumber |-> 3, payloadHash |-> "h3"],
       [transactionHash |-> "cb3", blockNumber |-> 3, payloadHash |-> "h1"] >>

\* What the operator can type into the address field.
UserInputs == { <<>>, <<"a", "B">>, <<"x">> }

\* The chain tips a getBlockNumber call can return.
Tips == 0..MaxTip

\* client.getContractEvents for TaskIssued over [fromBlock, toBlock].
fetchTasksInRange(fromBlock, toBlock) ==
    SelectSeq(ChainTasks,
              LAMBDA l : fromBlock <= l.blockNumber /\ l.blockNumber <= toBlock)

\* client.getContractEvents for NoticeReceived of one payload hash.
fetchEventsInRange(fromBlock, toBlock, payloadHash) ==
    SelectSeq(ChainNotices,
              LAMBDA l : /\ fromBlock <= l.blockNumber
                         /\ l.blockNumber <= toBlock
                         /\ l.payloadHash = payloadHash)

\* --------------------------------------------------------- messages
ValidationMessage == "Please enter a valid address"

\* err.message of the rejected call awaited at `pc`.
ErrorMessage(pc) ==
    CASE pc = "tip" -> "getBlockNumber failed"
      [] pc = "range" -> "getContractEvents failed"
      [] OTHER -> "getTransaction failed"

\* ---------------------------------------------------------------- state
VARIABLES
    selectedPayloadHash,  \* App: NULL in Listing, the payload hash in Detail
    inputDetails,         \* App: NoDetails or [hash, blockNumber]
    userAddress,          \* App: the address field
    tasks,                \* App: the task list
    tlIsLoading,          \* mounted TasksList instance: isLoading
    tlError,              \* mounted TasksList instance: error
    events,               \* mounted EventsList instance: events
    elIsLoading,          \* mounted EventsList instance: isLoading
    elError,              \* mounted EventsList instance: error
    taskFetches,          \* bag of the fetchTasks calls in flight
    eventFetches,         \* bag of the fetchEvents calls in flight
    pager                 \* paginator study: one paged query

vars == << selectedPayloadHash, inputDetails, userAddress, tasks, tlIsLoading,
           tlError, events, elIsLoading, elError, taskFetches, eventFetches,
           pager >>

appVars == << selectedPayloadHash, inputDetails, userAddress, tasks >>
tlVars == << tlIsLoading, tlError >>
elVars == << events, elIsLoading, elError >>

\* A fetchTasks call at its first await, with the userAddress its closure
\* captured and the formattedAddress computed from it. `mounted` tells whether the
\* component instance whose closure runs the call is still mounted (React
\* drops the state updates of an unmounted instance). `pending` counts the
\* sender lookups Promise.all still waits for.
NewTaskFetch(address) ==
    [pc |-> "tip", mounted |-> TRUE, userAddress |-> address,
     formattedAddress |-> ToLowerCase(address),
     latestBlock |-> 0, from |-> 0, to |-> 0, acc |-> <<>>, pending |-> 0]

\* A fetchEvents call at its first await.
NewEventFetch(payloadHash) ==
    [pc |-> "tip", mounted |-> TRUE, payloadHash |-> payloadHash,
     latestBlock |-> 0, from |-> 0, to |-> 0, acc |-> <<>>]

One(f) == SetToBag({f})

InFlight == BagCardinality(taskFetches) + BagCardinality(eventFetches)

\* Unmounting a component orphans the fetches its instance started.
RECURSIVE OrphanAll(_, _)
OrphanAll(fetches, todo) ==
    IF todo = {} THEN EmptyBag
    ELSE LET f == CHOOSE x \in todo : TRUE
         IN  [g \in {[f EXCEPT !.mounted = FALSE]} |-> fetches[f]]
             (+) OrphanAll(fetches, todo \ {f})

Orphan(fetches) == OrphanAll(fetches, BagToSet(fetches))

IdlePager ==
    [pc |-> "idle", start |-> 0, span |-> 0, latestBlock |-> 0,
     from |-> 0, to |-> 0, acc |-> <<>>, calls |-> <<>>]

\* useState initial values of App, TasksList and EventsList.
Init ==
    /\ selectedPayloadHash = NULL
    /\ inputDetails = NoDetails
    /\ userAddress = <<>>
    /\ tasks = <<>>
    /\ tlIsLoading = FALSE
    /\ tlError = NULL
    /\ events = <<>>
    /\ elIsLoading = FALSE
    /\ elError = NULL
    /\ taskFetches = EmptyBag
    /\ eventFetches = EmptyBag
    /\ pager = IdlePager

\* ------------------------------------------------------------ TasksList
\* userTasks: each fetched task paired with the sender of its transaction.
UserTasks(fetchedTasks) ==
    [i \in 1..Len(fetchedTasks) |->
        [task |-> fetchedTasks[i], from |-> TxFrom(fetchedTasks[i].transactionHash)]]

\* Variant: the sender is compared without lower-casing it.
SenderMatchesExactly(from, formattedAddress) == from = formattedAddress

\* .filter(({ from }) => from.toLowerCase() === formattedAddress)
SenderMatches(from, formattedAddress) == ToLowerCase(from) = formattedAddress

\* Variant: the sender filter is skipped.
FilteredTasksUnfiltered(userTasks, formattedAddress) ==
    [i \in 1..Len(userTasks) |-> userTasks[i].task]

\* filteredTasks
FilteredTasks(userTasks, formattedAddress) ==
    LET kept == SelectSeq(userTasks,
                          LAMBDA u : SenderMatches(u.from, formattedAddress))
    IN  [i \in 1..Len(kept) |-> kept[i].task]

\* Variant: the emptiness check is missing.
RejectsNothing(address) == FALSE

\* if (!userAddress) { setError(...); return; }
RejectsAddress(address) == address = <<>>

\* Variant: setIsLoading(false) sits at the end of the try block.
TaskFetchSettlesNoFinally(f, message) ==
    IF f.mounted
    THEN /\ tlIsLoading' = (message # NULL /\ tlIsLoading)
         /\ tlError' = IF message = NULL THEN tlError ELSE message
    ELSE UNCHANGED tlVars

\* The finally block (and the catch block before it, on failure) of a
\* fetchTasks whose TasksList instance may have been unmounted meanwhile.
TaskFetchSettles(f, message) ==
    IF f.mounted
    THEN /\ tlIsLoading' = FALSE
         /\ tlError' = IF message = NULL THEN tlError ELSE message
    ELSE UNCHANGED tlVars

\* Variant: setTasks of a fetch whose TasksList was unmounted is dropped.
TaskFetchSucceedsIfMounted(f, q) ==
    /\ tasks' = IF q.mounted
                THEN FilteredTasks(UserTasks(q.acc), q.formattedAddress)
                ELSE tasks
    /\ TaskFetchSettles(q, NULL)
    /\ taskFetches' = taskFetches (-) One(f)

\* Variant: the filter reads the address field when the lookups are done.
TaskFetchSucceedsCurrentField(f, q) ==
    /\ tasks' = FilteredTasks(UserTasks(q.acc), ToLowerCase(userAddress))
    /\ TaskFetchSettles(q, NULL)
    /\ taskFetches' = taskFetches (-) One(f)

\* setTasks(filteredTasks); finally setIsLoading(false)
TaskFetchSucceeds(f, q) ==
    /\ tasks' = FilteredTasks(UserTasks(q.acc), q.formattedAddress)
    /\ TaskFetchSettles(q, NULL)
    /\ taskFetches' = taskFetches (-) One(f)

\* fetchAllTasks has returned (q.pc = "done") or awaits the next sub-range.
\* On return, Promise.all issues one getTransaction per fetched task; over
\* an empty list it resolves at once.
TaskFetchContinues(f, q) ==
    IF q.pc = "range"
    THEN /\ taskFetches' = (taskFetches (-) One(f)) (+) One(q)
         /\ UNCHANGED << tasks, tlVars >>
    ELSE IF q.acc = <<>>
    THEN TaskFetchSucceeds(f, q)
    ELSE /\ taskFetches' = (taskFetches (-) One(f))
                           (+) One([q EXCEPT !.pc = "lookup",
                                             !.pending = Len(q.acc)])
         /\ UNCHANGED << tasks, tlVars >>

\* onChange of the address field.
SetUserAddress(address) ==
    /\ selectedPayloadHash = NULL
    /\ address # userAddress
    /\ userAddress' = address
    /\ UNCHANGED << selectedPayloadHash, inputDetails, tasks, tlVars, elVars,
                    taskFetches, eventFetches, pager >>

\* onClick of the Fetch button (disabled while isLoading): fetchTasks up to
\* its first await.
fetchTasks ==
    /\ selectedPayloadHash = NULL
    /\ ~tlIsLoading
    /\ IF RejectsAddress(userAddress)
       THEN /\ tlError' = ValidationMessage
            /\ UNCHANGED << tlIsLoading, taskFetches >>
       ELSE /\ InFlight < MaxFlight
            /\ tlIsLoading' = TRUE
            /\ tlError' = NULL
            /\ taskFetches' = taskFetches
                              (+) One(NewTaskFetch(userAddress))
    /\ UNCHANGED << appVars, elVars, eventFetches, pager >>

\* client.getBlockNumber() resolves inside fetchAllTasks.
TaskTipReturns(f, tip) ==
    /\ BagIn(f, taskFetches)
    /\ f.pc = "tip"
    /\ TaskFetchContinues(f,
          EnterLoop([f EXCEPT !.latestBlock = tip], TASK_START, BLOCK_RANGE))
    /\ UNCHANGED << selectedPayloadHash, inputDetails, userAddress, elVars,
                    eventFetches, pager >>

\* fetchTasksInRange resolves: allTasks.push(...batchTasks), then the loop.
TaskRangeReturns(f) ==
    /\ BagIn(f, taskFetches)
    /\ f.pc = "range"
    /\ LET batchTasks == fetchTasksInRange(f.from, f.to)
       IN  TaskFetchContinues(f,
              AfterBatch([f EXCEPT !.acc = f.acc \o batchTasks], BLOCK_RANGE))
    /\ UNCHANGED << selectedPayloadHash, inputDetails, userAddress, elVars,
                    eventFetches, pager >>

\* Variant: the list is filtered and published when the first lookup resolves.
TaskLookupReturnsFirst(f) ==
    /\ BagIn(f, taskFetches)
    /\ f.pc = "lookup"
    /\ TaskFetchSucceeds(f, [f EXCEPT !.pending = @ - 1])
    /\ UNCHANGED << selectedPayloadHash, inputDetails, userAddress, elVars,
                    eventFetches, pager >>

\* One client.getTransaction resolves; Promise.all resolves with the last.
TaskLookupReturns(f) ==
    /\ BagIn(f, taskFetches)
    /\ f.pc = "lookup"
    /\ LET q == [f EXCEPT !.pending = @ - 1]
       IN  IF q.pending = 0
           THEN TaskFetchSucceeds(f, q)
           ELSE /\ taskFetches' = (taskFetches (-) One(f)) (+) One(q)
                /\ UNCHANGED << tasks, tlVars >>
    /\ UNCHANGED << selectedPayloadHash, inputDetails, userAddress, elVars,
                    eventFetches, pager >>

\* Variant: the catch block publishes what was collected before the failure.
TaskCallFailsPartial(f) ==
    /\ BagIn(f, taskFetches)
    /\ TaskFetchSettles(f, ErrorMessage(f.pc))
    /\ taskFetches' = taskFetches (-) One(f)
    /\ tasks' = f.acc
    /\ UNCHANGED << selectedPayloadHash, inputDetails, userAddress, elVars,
                    eventFetches, pager >>

\* The awaited call of fetchTasks rejects (tip read, sub-range query, or the
\* first rejected sender lookup): catch, then finally.
TaskCallFails(f) ==
    /\ BagIn(f, taskFetches)
    /\ TaskFetchSettles(f, ErrorMessage(f.pc))
    /\ taskFetches' = taskFetches (-) One(f)
    /\ UNCHANGED << appVars, elVars, eventFetches, pager >>

\* {error && <div className="error-message">...} of the Listing screen.
ErrorShown == selectedPayloadHash = NULL /\ tlError # NULL

\* tasks.length > 0 ? ... : (!isLoading && <p>No tasks found</p>)
NoTasksFoundShown ==
    selectedPayloadHash = NULL /\ Len(tasks) = 0 /\ ~tlIsLoading

\* ------------------------------------------------------------------ App
\* setInputDetails({ hash: inputTx, blockNumber })
InputDetailsOf(inputTx, blockNumber) ==
    [hash |-> inputTx, blockNumber |-> blockNumber]

\* Variant: setInputDetails is not called.
handleTaskClickKeepsDetails(index) ==
    /\ selectedPayloadHash = NULL
    /\ index \in 1..Len(tasks)
    /\ InFlight < MaxFlight
    /\ LET task == tasks[index]
           payloadHash == Keccak256(task.input)
       IN  /\ selectedPayloadHash' = payloadHash
           /\ inputDetails' = inputDetails
           /\ eventFetches' = eventFetches (+) One(NewEventFetch(payloadHash))
    /\ taskFetches' = Orphan(taskFetches)
    /\ tlIsLoading' = FALSE
    /\ tlError' = NULL
    /\ events' = <<>>
    /\ elIsLoading' = TRUE
    /\ elError' = NULL
    /\ UNCHANGED << userAddress, tasks, pager >>

\* Variant: the effect of EventsList does not run fetchEvents.
handleTaskClickNoEffect(index) ==
    /\ selectedPayloadHash = NULL
    /\ index \in 1..Len(tasks)
    /\ InFlight < MaxFlight
    /\ LET task == tasks[index]
           payloadHash == Keccak256(task.input)
       IN  /\ selectedPayloadHash' = payloadHash
           /\ inputDetails' = InputDetailsOf(task.transactionHash,
                                             ToString10(task.blockNumber))
           /\ eventFetches' = eventFetches
    /\ taskFetches' = Orphan(taskFetches)
    /\ tlIsLoading' = FALSE
    /\ tlError' = NULL
    /\ events' = <<>>
    /\ elIsLoading' = FALSE
    /\ elError' = NULL
    /\ UNCHANGED << userAddress, tasks, pager >>

\* onClick of a task card: onTaskClick(payloadHash, transactionHash,
\* blockNumber.toString(10)) -> handleTaskClick. App re-renders: TasksList
\* unmounts, EventsList mounts and its effect runs fetchEvents up to its
\* first await.
handleTaskClick(index) ==
    /\ selectedPayloadHash = NULL
    /\ index \in 1..Len(tasks)
    /\ InFlight < MaxFlight
    /\ LET task == tasks[index]
           payloadHash == Keccak256(task.input)
       IN  /\ selectedPayloadHash' = payloadHash
           /\ inputDetails' = InputDetailsOf(task.transactionHash,
                                             ToString10(task.blockNumber))
           /\ eventFetches' = eventFetches (+) One(NewEventFetch(payloadHash))
    /\ taskFetches' = Orphan(taskFetches)
    /\ tlIsLoading' = FALSE
    /\ tlError' = NULL
    /\ events' = <<>>
    /\ elIsLoading' = TRUE
    /\ elError' = NULL
    /\ UNCHANGED << userAddress, tasks, pager >>

\* Variant: going back resets the task list.
BackClearsTasks ==
    /\ selectedPayloadHash # NULL
    /\ selectedPayloadHash' = NULL
    /\ eventFetches' = Orphan(eventFetches)
    /\ events' = <<>>
    /\ elIsLoading' = FALSE
    /\ elError' = NULL
    /\ tasks' = <<>>
    /\ UNCHANGED << inputDetails, userAddress, tlVars, taskFetches, pager >>

\* onClick of the Back button: setSelectedPayloadHash(null). EventsList
\* unmounts, a fresh TasksList mounts.
Back ==
    /\ selectedPayloadHash # NULL
    /\ selectedPayloadHash' = NULL
    /\ eventFetches' = Orphan(eventFetches)
    /\ events' = <<>>
    /\ elIsLoading' = FALSE
    /\ elError' = NULL
    /\ UNCHANGED << inputDetails, userAddress, tasks, tlVars, taskFetches, pager >>

\* ----------------------------------------------------------- EventsList
\* The finally block (and the catch block before it, on failure) of a
\* fetchEvents whose EventsList instance may have been unmounted meanwhile.
EventFetchSettles(f, message) ==
    IF f.mounted
    THEN /\ elIsLoading' = FALSE
         /\ elError' = IF message = NULL THEN elError ELSE message
    ELSE UNCHANGED << elIsLoading, elError >>

\* Variant: setEvents of an unmounted instance reaches the screen.
EventFetchContinuesApplied(f, q) ==
    IF q.pc = "range"
    THEN /\ eventFetches' = (eventFetches (-) One(f)) (+) One(q)
         /\ UNCHANGED elVars
    ELSE /\ events' = q.acc
         /\ EventFetchSettles(q, NULL)
         /\ eventFetches' = eventFetches (-) One(f)

\* fetchAllEvents has returned (setEvents, finally) or awaits a sub-range.
EventFetchContinues(f, q) ==
    IF q.pc = "range"
    THEN /\ eventFetches' = (eventFetches (-) One(f)) (+) One(q)
         /\ UNCHANGED elVars
    ELSE /\ events' = IF q.mounted THEN q.acc ELSE events
         /\ EventFetchSettles(q, NULL)
         /\ eventFetches' = eventFetches (-) One(f)

\* client.getBlockNumber() resolves inside fetchAllEvents.
EventTipReturns(f, tip) ==
    /\ BagIn(f, eventFetches)
    /\ f.pc = "tip"
    /\ EventFetchContinues(f,
          EnterLoop([f EXCEPT !.latestBlock = tip], EVENT_START, BLOCK_RANGE))
    /\ UNCHANGED << appVars, tlVars, taskFetches, pager >>

\* fetchEventsInRange resolves: allEvents.push(...batchEvents), then the loop.
EventRangeReturns(f) ==
    /\ BagIn(f, eventFetches)
    /\ f.pc = "range"
    /\ LET batchEvents == fetchEventsInRange(f.from, f.to, f.payloadHash)
       IN  EventFetchContinues(f,
              AfterBatch([f EXCEPT !.acc = f.acc \o batchEvents], BLOCK_RANGE))
    /\ UNCHANGED << appVars, tlVars, taskFetches, pager >>

\* The awaited call of fetchEvents rejects: catch, then finally.
EventCallFails(f) ==
    /\ BagIn(f, eventFetches)
    /\ EventFetchSettles(f, ErrorMessage(f.pc))
    /\ eventFetches' = eventFetches (-) One(f)
    /\ UNCHANGED << appVars, tlVars, events, taskFetches, pager >>

\* ------------------------------------------------------ the application
Next ==
    \/ \E address \in UserInputs : SetUserAddress(address)
    \/ fetchTasks
    \/ \E f \in BagToSet(taskFetches), tip \in Tips : TaskTipReturns(f, tip)
    \/ \E f \in BagToSet(taskFetches) : TaskRangeReturns(f)
    \/ \E f \in BagToSet(taskFetches) : TaskLookupReturns(f)
    \/ \E f \in BagToSet(taskFetches) : TaskCallFails(f)
    \/ \E index \in 1..Len(ChainTasks) : handleTaskClick(index)
    \/ Back
    \/ \E f \in BagToSet(eventFetches), tip \in Tips : EventTipReturns(f, tip)
    \/ \E f \in BagToSet(eventFetches) : EventRangeReturns(f)
    \/ \E f \in BagToSet(eventFetches) : EventCallFails(f)

Spec == Init /\ [][Next]_vars

\* The network call a mounted component's fetch awaits returns or fails.
MountedTaskFetchResponds ==
    \E f \in BagToSet(taskFetches) :
       /\ f.mounted
       /\ \/ \E tip \in Tips : TaskTipReturns(f, tip)
          \/ TaskRangeReturns(f)
          \/ TaskLookupReturns(f)
          \/ TaskCallFails(f)

MountedEventFetchResponds ==
    \E f \in BagToSet(eventFetches) :
       /\ f.mounted
       /\ \/ \E tip \in Tips : EventTipReturns(f, tip)
          \/ EventRangeReturns(f)
          \/ EventCallFails(f)

\* The application when every awaited network call eventually settles.
FairSpec ==
    /\ Spec
    /\ WF_vars(MountedTaskFetchResponds)
    /\ WF_vars(MountedEventFetchResponds)

\* ------------------------------------------- the paginator on its own
\* One paged query for an arbitrary start block and span; `calls` records
\* the sub-ranges handed to the per-range fetch and `acc` is allTasks.
PageInit ==
    /\ selectedPayloadHash = NULL
    /\ inputDetails = NoDetails
    /\ userAddress = <<>>
    /\ tasks = <<>>
    /\ tlIsLoading = FALSE
    /\ tlError = NULL
    /\ events = <<>>
    /\ elIsLoading = FALSE
    /\ elError = NULL
    /\ taskFetches = EmptyBag
    /\ eventFetches = EmptyBag
    /\ \E start \in 0..MaxStart, span \in 0..MaxSpan :
          pager = [IdlePager EXCEPT !.pc = "tip", !.start = start, !.span = span]

PageContinues(q) ==
    pager' = IF q.pc = "range"
             THEN [q EXCEPT !.calls = Append(@, << q.from, q.to >>)]
             ELSE q

\* getBlockNumber resolves; let currentFromBlock = start; the loop head.
PageTipReturns(tip) ==
    /\ pager.pc = "tip"
    /\ PageContinues(EnterLoop([pager EXCEPT !.latestBlock = tip],
                               pager.start, pager.span))
    /\ UNCHANGED << appVars, tlVars, elVars, taskFetches, eventFetches >>

\* The per-range fetch resolves: push the batch; the loop tail and head.
PageRangeReturns ==
    /\ pager.pc = "range"
    /\ LET batchTasks == fetchTasksInRange(pager.from, pager.to)
       IN  PageContinues(AfterBatch([pager EXCEPT !.acc = @ \o batchTasks],
                                    pager.span))
    /\ UNCHANGED << appVars, tlVars, elVars, taskFetches, eventFetches >>

PageNext ==
    \/ \E tip \in 0..MaxPageTip : PageTipReturns(tip)
    \/ PageRangeReturns

PageSpec == PageInit /\ [][PageNext]_vars

\* The paged query when the tip read and every per-range fetch return.
PageFairSpec == PageSpec /\ WF_vars(PageNext)


\* =============================================================== claims
CeilDiv(a, b) == (a + b - 1) \div b

\* The paged query has read the tip, and start <= tip and maxSpan > 0.
PagePre ==
    /\ pager.pc \in {"range", "done"}
    /\ pager.start <= pager.latestBlock
    /\ pager.span > 0

\* C1: for start <= tip and maxSpan > 0 the sub-ranges passed to the
\* per-range fetch start at start, each ends at min(from + maxSpan, tip),
\* each next one begins at the previous end + 1, and once the query has
\* returned the last ends at tip and every block of [start, tip] lies in
\* exactly one sub-range (and no sub-range leaves [start, tip]).
C1_RangesPartition ==
    PagePre =>
       LET calls == pager.calls
           n == Len(calls)
       IN  /\ n >= 1
           /\ calls[1][1] = pager.start
           /\ \A i \in 1..n :
                 /\ calls[i][2] = Min(calls[i][1] + pager.span, pager.latestBlock)
                 /\ pager.start <= calls[i][1]
                 /\ calls[i][1] <= calls[i][2]
                 /\ calls[i][2] <= pager.latestBlock
           /\ \A i \in 1..(n - 1) : calls[i + 1][1] = calls[i][2] + 1
           /\ pager.pc = "done" =>
                 /\ calls[n][2] = pager.latestBlock
                 /\ \A b \in pager.start..pager.latestBlock :
                       Cardinality({i \in 1..n :
                                      calls[i][1] <= b /\ b <= calls[i][2]}) = 1

C1_Witness ==
    /\ PagePre
    /\ pager.pc = "done"
    /\ Len(pager.calls) >= 2
    /\ pager.calls[Len(pager.calls)][2] - pager.calls[Len(pager.calls)][1] < pager.span

\* C2: for start <= tip and maxSpan > 0 a paged query that has returned made
\* exactly ceil((tip - start + 1) / (maxSpan + 1)) per-range fetch calls.
C2_CallCount ==
    (PagePre /\ pager.pc = "done") =>
       Len(pager.calls) =
          CeilDiv(pager.latestBlock - pager.start + 1, pager.span + 1)

C2_Witness ==
    /\ PagePre
    /\ pager.pc = "done"
    /\ Len(pager.calls) = 3
    /\ (pager.latestBlock - pager.start + 1) % (pager.span + 1) # 0

\* Every fetch in flight after the step was in flight before it, awaiting
\* the same call: the step issued no network call.
NoCallStarts ==
    /\ Orphan(taskFetches') \sqsubseteq Orphan(taskFetches)
    /\ Orphan(eventFetches') \sqsubseteq Orphan(eventFetches)

SameLetter(x, y) ==
    \/ x = y
    \/ {x, y} \in { {"a", "A"}, {"b", "B"}, {"c", "C"}, {"d", "D"} }

EqualsIgnoreCase(a, b) ==
    /\ Len(a) = Len(b)
    /\ \A i \in 1..Len(a) : SameLetter(a[i], b[i])

\* The TaskIssued logs of blocks TASK_START..latest whose transaction was
\* sent by `address` (compared case-insensitively), in chain order.
ExpectedTasks(latest, address) ==
    SelectSeq(ChainTasks,
              LAMBDA t : /\ TASK_START <= t.blockNumber
                         /\ t.blockNumber <= latest
                         /\ EqualsIgnoreCase(TxFrom(t.transactionHash), address))

\* C4: when a fetchTasks started for address A completes successfully, the
\* task list becomes exactly the fetched tasks (those of the blocks from
\* TASK_START to the tip it read) whose sender equals A ignoring case, in
\* fetch order.
C4_FilterExact ==
    [][ \A f \in BagToSet(taskFetches) :
           /\ \A tip \in Tips :
                 (TaskTipReturns(f, tip) /\ taskFetches' = taskFetches (-) One(f))
                    => tasks' = ExpectedTasks(tip, f.userAddress)
           /\ ((TaskRangeReturns(f) \/ TaskLookupReturns(f))
                  /\ taskFetches' = taskFetches (-) One(f))
                 => tasks' = ExpectedTasks(f.latestBlock, f.userAddress) ]_vars

\* A fetch for "aB" over the whole chain kept tx1 (sender "Ab") and tx3
\* (sender "aB") in that order and dropped tx2 (sender "cD").
C4_Witness ==
    /\ Len(tasks) = 2
    /\ tasks[1].transactionHash = "tx1"
    /\ tasks[2].transactionHash = "tx3"
    /\ tlError = NULL
    /\ ~tlIsLoading
    /\ taskFetches = EmptyBag

\* C5 as stated: never two fetchTasks in flight, never two fetchEvents in
\* flight.
C5_OneFetchPerScreen ==
    /\ BagCardinality(taskFetches) <= 1
    /\ BagCardinality(eventFetches) <= 1

\* C6: a loading flag is set only while a fetch of the mounted component is
\* in flight, the step in which such a fetch settles (success or failure at
\* the tip read, a sub-range query or a sender lookup) clears it, and, when
\* every awaited call eventually returns or fails, a set flag is eventually
\* cleared.
C6_LoadingEventuallyCleared ==
    /\ [](tlIsLoading => \E f \in BagToSet(taskFetches) : f.mounted)
    /\ [](elIsLoading => \E f \in BagToSet(eventFetches) : f.mounted)
    /\ [][ /\ \A f \in BagToSet(taskFetches) :
                 (f.mounted /\ taskFetches' = taskFetches (-) One(f))
                    => ~tlIsLoading'
           /\ \A f \in BagToSet(eventFetches) :
                 (f.mounted /\ eventFetches' = eventFetches (-) One(f))
                    => ~elIsLoading' ]_vars
    /\ tlIsLoading ~> ~tlIsLoading
    /\ elIsLoading ~> ~elIsLoading

\* A sender lookup of the mounted TasksList's fetch was rejected and the
\* flag is cleared.
C6_Witness ==
    /\ selectedPayloadHash = NULL
    /\ tlError = ErrorMessage("lookup")
    /\ ~tlIsLoading
    /\ taskFetches = EmptyBag

\* C7: fetchTasks with an empty address issues no network call, starts no
\* fetch, sets the validation message and leaves the task list and the
\* loading flag as they were; no fetch in flight was started for an empty
\* address, and the validation message appears only this way.
C7_EmptyAddressRejected ==
    /\ [](\A f \in BagToSet(taskFetches) : f.userAddress # <<>>)
    /\ [][ /\ (fetchTasks /\ userAddress = <<>>) =>
                /\ NoCallStarts
                /\ taskFetches' = taskFetches
                /\ eventFetches' = eventFetches
                /\ tlError' = ValidationMessage
                /\ tasks' = tasks
                /\ tlIsLoading' = tlIsLoading
           /\ (tlError' = ValidationMessage /\ tlError # ValidationMessage) =>
                /\ userAddress = <<>>
                /\ NoCallStarts
                /\ UNCHANGED << appVars, tlIsLoading, elVars >> ]_vars

\* Fetch was clicked with the field emptied while a list was shown.
C7_Witness ==
    /\ userAddress = <<>>
    /\ tlError = ValidationMessage
    /\ ~tlIsLoading
    /\ taskFetches = EmptyBag
    /\ Len(tasks) = 2

DigitValue(c) ==
    CASE c = "0" -> 0 [] c = "1" -> 1 [] c = "2" -> 2 [] c = "3" -> 3
      [] c = "4" -> 4 [] c = "5" -> 5 [] c = "6" -> 6 [] c = "7" -> 7
      [] c = "8" -> 8 [] OTHER -> 9

RECURSIVE DecimalValue(_)
\* The number a decimal string denotes.
DecimalValue(str) ==
    IF str = <<>> THEN 0
    ELSE 10 * DecimalValue(SubSeq(str, 1, Len(str) - 1)) + DigitValue(str[Len(str)])

\* The selection is that of task t.
SelectionOf(hash, details, t) ==
    /\ hash = Keccak256(t.input)
    /\ details.hash = t.transactionHash
    /\ details.blockNumber # <<>>
    /\ DecimalValue(details.blockNumber) = t.blockNumber

\* C8: in Detail the selected payload hash and inputDetails are those of one
\* task of the chain; entering Detail sets them to the hash, transaction
\* hash and block number of one task of the list shown, and no step taken
\* in Detail (a notice fetch progressing, completing or failing) changes
\* them.
C8_DetailSelection ==
    /\ [](selectedPayloadHash # NULL =>
            \E i \in 1..Len(ChainTasks) :
               SelectionOf(selectedPayloadHash, inputDetails, ChainTasks[i]))
    /\ [][ /\ (selectedPayloadHash = NULL /\ selectedPayloadHash' # NULL) =>
                \E i \in 1..Len(tasks) :
                   /\ handleTaskClick(i)
                   /\ SelectionOf(selectedPayloadHash', inputDetails', tasks[i])
           /\ (selectedPayloadHash # NULL /\ selectedPayloadHash' # NULL) =>
                /\ selectedPayloadHash' = selectedPayloadHash
                /\ inputDetails' = inputDetails ]_vars

\* The second task of the list was selected after an earlier selection of
\* the first (whose notice fetch is still in flight), and the notice fetch
\* of the second has completed.
C8_Witness ==
    /\ selectedPayloadHash = "h3"
    /\ inputDetails = [hash |-> "tx3", blockNumber |-> <<"3">>]
    /\ ~elIsLoading
    /\ elError = NULL
    /\ Len(events) = 1
    /\ \E f \in BagToSet(eventFetches) : f.payloadHash = "h1"

\* C9: the view starts in Listing; every step from Detail to Listing
\* leaves the task list and the address field unchanged, issues no network
\* call and starts no fetch; Back always ends in Listing.
C9_BackKeepsList ==
    /\ selectedPayloadHash = NULL
    /\ [][ /\ Back => selectedPayloadHash' = NULL
           /\ (selectedPayloadHash # NULL /\ selectedPayloadHash' = NULL) =>
                /\ tasks' = tasks
                /\ userAddress' = userAddress
                /\ NoCallStarts
                /\ taskFetches' = taskFetches
                /\ BagCardinality(eventFetches') = BagCardinality(eventFetches)
                /\ ~tlIsLoading' ]_vars

\* Back in Listing (the notice fetch of the visit is still in flight,
\* orphaned) with the two-task list and the address as they were.
C9_Witness ==
    /\ selectedPayloadHash = NULL
    /\ inputDetails # NoDetails
    /\ Len(tasks) = 2
    /\ userAddress = <<"a", "B">>
    /\ taskFetches = EmptyBag
    /\ \E f \in BagToSet(eventFetches) : ~f.mounted /\ f.pc = "tip"

\* C10: every entry into Detail with payload hash h starts, in the same
\* step, a new fetchEvents for h over an empty events list (tip read
\* awaited, loading flag set), whatever was fetched before; the first
\* sub-range a fetchEvents requests after its tip read starts at EVENT_START,
\* and a fetchEvents awaiting a sub-range has collected the notices of its
\* hash in all blocks from EVENT_START up to that sub-range.
C10_DetailStartsFullQuery ==
    /\ [](\A f \in BagToSet(eventFetches) :
            f.pc = "range" =>
               /\ EVENT_START <= f.from
               /\ f.acc = fetchEventsInRange(EVENT_START, f.from - 1, f.payloadHash))
    /\ [][ /\ (selectedPayloadHash = NULL /\ selectedPayloadHash' # NULL) =>
                /\ eventFetches' =
                      eventFetches (+) One(NewEventFetch(selectedPayloadHash'))
                /\ events' = <<>>
                /\ elIsLoading'
           /\ \A f \in BagToSet(eventFetches), tip \in Tips :
                (EventTipReturns(f, tip) /\ EVENT_START <= tip) =>
                   eventFetches' =
                      (eventFetches (-) One(f))
                      (+) One([f EXCEPT !.pc = "range", !.latestBlock = tip,
                                        !.from = EVENT_START,
                                        !.to = Min(EVENT_START + BLOCK_RANGE, tip)]) ]_vars

\* The task whose notice query is still in flight from the previous visit
\* was selected again: a second query for the same hash awaits its tip read.
C10_Witness ==
    /\ selectedPayloadHash # NULL
    /\ \E f \in BagToSet(eventFetches) :
          /\ ~f.mounted
          /\ f.payloadHash = selectedPayloadHash
          /\ f.pc = "range"
    /\ \E g \in BagToSet(eventFetches) :
          /\ g.mounted
          /\ g.payloadHash = selectedPayloadHash
          /\ g.pc = "tip"

\* The fetchEvents f returns its result in this step.
EventFetchReturns(f) ==
    /\ \/ \E tip \in Tips : EventTipReturns(f, tip)
       \/ EventRangeReturns(f)
    /\ eventFetches' = eventFetches (-) One(f)

\* The notices of payload hash h in blocks EVENT_START..latest.
ExpectedEvents(latest, h) == fetchEventsInRange(EVENT_START, latest, h)

\* C11 as stated: the result of every notice fetch, a superseded one
\* included, is applied to the events state when it arrives.
C11_Original ==
    [][ \A f \in BagToSet(eventFetches), tip \in Tips :
           /\ (EventTipReturns(f, tip) /\ eventFetches' = eventFetches (-) One(f))
                 => events' = ExpectedEvents(tip, f.payloadHash)
           /\ (EventRangeReturns(f) /\ eventFetches' = eventFetches (-) One(f))
                 => events' = ExpectedEvents(f.latestBlock, f.payloadHash) ]_vars

\* C11 (amended): a notice fetch in flight when the user leaves Detail or
\* selects again is not aborted (it stays in flight and goes on to request
\* its sub-ranges), but it belongs to an unmounted EventsList instance: no
\* step of it changes events, the loading flag or the error, so in Detail
\* the events shown are empty or the notices of the selected hash, and only
\* the fetch of the mounted instance (started for the selected hash) writes
\* them.
C11_SupersededFetchDropped ==
    /\ [](\A f \in BagToSet(eventFetches) :
            f.mounted => f.payloadHash = selectedPayloadHash)
    /\ [](selectedPayloadHash # NULL =>
            \/ events = <<>>
            \/ \E tip \in Tips :
                  events = ExpectedEvents(tip, selectedPayloadHash))
    /\ [][ /\ selectedPayloadHash' # selectedPayloadHash =>
                /\ Orphan(eventFetches) \sqsubseteq Orphan(eventFetches')
                /\ \A g \in BagToSet(eventFetches') :
                      g.mounted => g = NewEventFetch(selectedPayloadHash')
           /\ \A f \in BagToSet(eventFetches) :
                 /\ (~f.mounted /\ (EventFetchReturns(f) \/ EventCallFails(f)))
                       => UNCHANGED << appVars, tlVars, elVars >>
                 /\ \A tip \in Tips :
                       (~f.mounted /\ EventTipReturns(f, tip) /\ EVENT_START <= tip)
                          => \E g \in BagToSet(eventFetches') :
                                /\ ~g.mounted
                                /\ g.pc = "range"
                                /\ g.from = EVENT_START
                                /\ g.payloadHash = f.payloadHash
                 /\ (f.mounted /\ EventFetchReturns(f)) =>
                       \E tip \in Tips :
                          events' = ExpectedEvents(tip, selectedPayloadHash) ]_vars

\* Detail of the third task shows its one notice while the notice fetch of
\* the first task, selected before, is still in flight holding a notice of
\* the first task and awaiting its last sub-range.
C11_Witness ==
    /\ selectedPayloadHash = "h3"
    /\ Len(events) = 1
    /\ events[1].payloadHash = "h3"
    /\ ~elIsLoading
    /\ \E f \in BagToSet(eventFetches) :
          /\ ~f.mounted
          /\ f.payloadHash = "h1"
          /\ f.pc = "range"
          /\ f.to = f.latestBlock
          /\ f.acc # <<>>

\* What C12 says of the lookups issued and of the lookups that resolve: a
\* fetchTasks that starts its lookups issues one per fetched task (the tasks
\* of all blocks from TASK_START to its tip), a lookup that resolves while
\* others are outstanding changes nothing but the count, and the task list
\* changes only in the step in which a fetchTasks returns with no lookup
\* outstanding.
C12_LookupsThenFilter ==
    /\ \A f \in BagToSet(taskFetches), g \in BagToSet(taskFetches') :
          (/\ f.pc # "lookup"
           /\ g.pc = "lookup"
           /\ taskFetches' = (taskFetches (-) One(f)) (+) One(g))
             => /\ g.acc = fetchTasksInRange(TASK_START, g.latestBlock)
                /\ g.pending = Len(g.acc)
                /\ g.pending >= 1
                /\ tasks' = tasks
    /\ \A f \in BagToSet(taskFetches) :
          (f.pc = "lookup" /\ f.pending > 1 /\ TaskLookupReturns(f))
             => /\ taskFetches' = (taskFetches (-) One(f))
                                  (+) One([f EXCEPT !.pending = @ - 1])
                /\ UNCHANGED << appVars, tlVars, elVars >>
    /\ tasks' # tasks =>
          \E f \in BagToSet(taskFetches) :
             /\ taskFetches' = taskFetches (-) One(f)
             /\ f.pc = "lookup" => f.pending = 1

TaskFetchReturns(f) ==
    /\ \/ \E tip \in Tips : TaskTipReturns(f, tip)
       \/ TaskRangeReturns(f)
       \/ TaskLookupReturns(f)
    /\ taskFetches' = taskFetches (-) One(f)

\* The tip the fetchTasks f has read once the step is over.
TipRead(f) ==
    IF f.pc = "tip"
    THEN CHOOSE tip \in Tips : TaskTipReturns(f, tip)
    ELSE f.latestBlock

\* No task of blocks TASK_START..tip was sent by the address of f.
ZeroMatches(f) ==
    /\ f.userAddress # <<>>
    /\ ExpectedTasks(TipRead(f), f.userAddress) = <<>>

C14_StartBeyondTip ==
    /\ [](pager.start > pager.latestBlock =>
            /\ pager.pc \in {"tip", "done"}
            /\ pager.calls = <<>>
            /\ pager.acc = <<>>)
    /\ [][ \A tip \in 0..MaxPageTip :
              (PageTipReturns(tip) /\ pager.start > tip) =>
                 /\ pager'.pc = "done"
                 /\ pager'.latestBlock = tip
                 /\ pager'.calls = <<>>
                 /\ pager'.acc = <<>> ]_vars

\* A query from block 3 read tip 1 and returned at once.
C14_Witness ==
    /\ pager.pc = "done"
    /\ pager.start = 3
    /\ pager.latestBlock = 1
    /\ pager.span > 0
    /\ pager.calls = <<>>
    /\ pager.acc = <<>>

\* A well-formed account address in the address alphabet of the model: two
\* characters, each a hexadecimal letter in either case.
WellFormedAddress(address) ==
    /\ Len(address) = 2
    /\ \A i \in 1..Len(address) :
          address[i] \in {"a", "b", "c", "d", "A", "B", "C", "D"}

\* C15 as stated: a Fetch click with an address that is not well formed
\* (empty or not) starts no fetch, issues no network call and shows an
\* error.
C15_InvalidAddressRejected ==
    [][ (fetchTasks /\ ~WellFormedAddress(userAddress)) =>
           /\ NoCallStarts
           /\ taskFetches' = taskFetches
           /\ ~tlIsLoading'
           /\ tlError' # NULL ]_vars

\* C16: for every start, tip and maxSpan >= 0 a paged query whose tip read
\* and per-range fetches all return does return; the number of its fetch
\* calls never exceeds the number of blocks of [start, tip]; every further
\* iteration starts above the previous one (at its `to` + 1, still within
\* the tip); and the query returns exactly in the iteration whose `to`
\* equals the tip, so the last call made ends at the tip.
C16_PagedQueryTerminates ==
    /\ [][ PageRangeReturns =>
              /\ (pager'.pc = "done") <=> (pager.to = pager.latestBlock)
              /\ pager'.pc = "range" =>
                    /\ pager'.from > pager.from
                    /\ pager'.from = pager.to + 1
                    /\ pager'.from <= pager.latestBlock
                    /\ Len(pager'.calls) = Len(pager.calls) + 1 ]_vars
    /\ [](pager.pc # "tip" =>
            Len(pager.calls) <=
               IF pager.start <= pager.latestBlock
               THEN pager.latestBlock - pager.start + 1 ELSE 0)
    /\ [](pager.pc = "done" /\ pager.calls # <<>> =>
            pager.calls[Len(pager.calls)][2] = pager.latestBlock)
    /\ <>(pager.pc = "done")

\* With maxSpan 0 a query over three blocks returned after three calls.
C16_Witness ==
    /\ pager.pc = "done"
    /\ pager.span = 0
    /\ Len(pager.calls) = 3
    /\ pager.calls[3][2] = pager.latestBlock

\* The transaction hashes of a task list.
HashesOf(list) == { list[i].transactionHash : i \in 1..Len(list) }

\* C17: selecting a task aborts no fetchTasks in flight (each stays in
\* flight, now without a mounted TasksList); when such a fetch returns,
\* in Detail or back in Listing, the task list held by App becomes its
\* result while the selection, the loading flag and the error message stay
\* as they are.
C17_OrphanedFetchReplacesList ==
    [][ /\ (selectedPayloadHash = NULL /\ selectedPayloadHash' # NULL) =>
              /\ taskFetches' = Orphan(taskFetches)
              /\ BagCardinality(taskFetches') = BagCardinality(taskFetches)
              /\ tasks' = tasks
        /\ \A f \in BagToSet(taskFetches) :
              (~f.mounted /\ TaskFetchReturns(f)) =>
                 /\ tasks' = ExpectedTasks(TipRead(f), f.userAddress)
                 /\ UNCHANGED << selectedPayloadHash, inputDetails, userAddress,
                                 tlVars, elVars >> ]_vars

\* In Detail, nothing in flight any more: the task list held by App no
\* longer contains the task the selection was made from.
C17_Witness ==
    /\ selectedPayloadHash # NULL
    /\ inputDetails.hash \notin HashesOf(tasks)
    /\ taskFetches = EmptyBag
    /\ ~elIsLoading
    /\ events # <<>>

\* C18: a fetchTasks carries the address that was in the field when it was
\* started, and its lower-cased form, until it ends: editing the field
\* changes neither the fetches in flight nor the list, later steps of a
\* fetch keep both, and the task list changes only when a fetch returns, to
\* tasks of blocks TASK_START..tip whose senders all equal, ignoring case,
\* the address that fetch was started with, whatever the field holds then.
C18_FilterByCapturedAddress ==
    /\ [](\A f \in BagToSet(taskFetches) :
            f.formattedAddress = ToLowerCase(f.userAddress))
    /\ [][ /\ userAddress' # userAddress =>
                /\ taskFetches' = taskFetches
                /\ tasks' = tasks
           /\ \A g \in BagToSet(taskFetches') :
                 \/ \E f \in BagToSet(taskFetches) :
                       /\ g.userAddress = f.userAddress
                       /\ g.formattedAddress = f.formattedAddress
                 \/ /\ fetchTasks
                    /\ g = NewTaskFetch(userAddress)
           /\ tasks' # tasks =>
                 \E f \in BagToSet(taskFetches) :
                    /\ TaskFetchReturns(f)
                    /\ tasks' = ExpectedTasks(TipRead(f), f.userAddress)
                    /\ \A i \in 1..Len(tasks') :
                          EqualsIgnoreCase(TxFrom(tasks'[i].transactionHash),
                                           f.userAddress)
           /\ \A f \in BagToSet(taskFetches) :
                 TaskFetchReturns(f) =>
                    tasks' = ExpectedTasks(TipRead(f), f.userAddress) ]_vars

\* The field was edited from "aB" to "x" while the fetch for "aB" is in
\* flight: it has fetched the three tasks of the chain and awaits the last
\* of their sender lookups.
C18_Witness ==
    /\ selectedPayloadHash = NULL
    /\ userAddress = <<"x">>
    /\ tlIsLoading
    /\ \E f \in BagToSet(taskFetches) :
          /\ f.mounted
          /\ f.userAddress = <<"a", "B">>
          /\ f.pc = "lookup"
          /\ Len(f.acc) = 3
          /\ f.pending = 1

====
